---- MODULE Spec2Model ----
(***************************************************************************)
(* WhatsappChatBOT: the webhook gateway (app.py), the background job that  *)
(* answers a message (app.py, bot.py), the dashboard's accounts and its    *)
(* reads of the message store (app.py, db_ui.py) and the Google tools      *)
(* (google_tools.py), as one state machine.                                *)
(***************************************************************************)
EXTENDS Integers, Sequences, FiniteSets, TLC

(***************************************************************************)
(* JSON values as Python sees them after json.loads / request.json().      *)
(* An object is a sequence of <<key, value>> pairs with distinct keys.     *)
(***************************************************************************)
JNull == [t |-> "null"]
JNum == [t |-> "num"]
JStr(s) == [t |-> "str", s |-> s]
JArr(e) == [t |-> "arr", e |-> e]
JObj(kv) == [t |-> "obj", kv |-> kv]

\* The outcome of a Python expression: a value, or an exception raised.
Ok(v) == [ok |-> TRUE, v |-> v]
Raise == [ok |-> FALSE]

HasKey(o, k) == \E i \in 1..Len(o.kv) : o.kv[i][1] = k
KeyVal(o, k) == o.kv[CHOOSE i \in 1..Len(o.kv) : o.kv[i][1] = k][2]

\* Pairs <<s, k>> of the strings used below with k a proper substring of s.
ProperSubstrings == {<<"context", "text">>}
StrContains(s, k) == k = "" \/ s = k \/ <<s, k>> \in ProperSubstrings

\* The first character of each string a webhook body below holds where the
\* handler expects a list.
FirstChar(s) ==
    CASE s = "context" -> "c"
      [] s = "messages" -> "m"
      [] OTHER -> "?"

\* Python's v[k] for a string key k: a dict looks the key up (KeyError when
\* absent); lists, strings, numbers and None raise TypeError.
GetKey(v, k) ==
    IF v.t = "obj" /\ HasKey(v, k) THEN Ok(KeyVal(v, k)) ELSE Raise

\* v[-1] in place of v[0].
GetLast(v) ==
    CASE v.t = "arr" /\ Len(v.e) > 0 -> Ok(v.e[Len(v.e)])
      [] v.t = "str" /\ v.s # "" -> Ok(JStr(FirstChar(v.s)))
      [] OTHER -> Raise

\* Python's v[0]: the first element of a list, the first character of a
\* string (IndexError when empty); a dict has no key 0 (its keys are strings:
\* KeyError); numbers and None raise TypeError.
GetFirst(v) ==
    CASE v.t = "arr" /\ Len(v.e) > 0 -> Ok(v.e[1])
      [] v.t = "str" /\ v.s # "" -> Ok(JStr(FirstChar(v.s)))
      [] OTHER -> Raise

\* Python's (k in v) for a string k: key membership for a dict, element
\* membership for a list, substring for a string; TypeError otherwise.
Contains(v, k) ==
    CASE v.t = "obj" -> Ok(HasKey(v, k))
      [] v.t = "arr" -> Ok(\E i \in 1..Len(v.e) : v.e[i].t = "str" /\ v.e[i].s = k)
      [] v.t = "str" -> Ok(StrContains(v.s, k))
      [] OTHER -> Raise

(***************************************************************************)
(* Inputs.                                                                 *)
(***************************************************************************)
MaxRequests == 2

Senders == {"923001", "923002"}
Texts == {"hi"}
\* The texts the language model may finalize with.
ModelTexts == {"ok", ""}

\* Meta's envelope around one change value: entry[0].changes[0].value.
Envelope(value) ==
    JObj(<< <<"object", JStr("whatsapp_business_account")>>,
            <<"entry", JArr(<< JObj(<< <<"id", JStr("1")>>,
                <<"changes", JArr(<< JObj(<< <<"field", JStr("messages")>>,
                                             <<"value", value>> >>) >>)>> >>) >>)>> >>)

TextMessage(from, body) ==
    JObj(<< <<"from", JStr(from)>>, <<"type", JStr("text")>>,
            <<"text", JObj(<< <<"body", JStr(body)>> >>)>> >>)

StatusUpdate ==
    JObj(<< <<"statuses", JArr(<< JObj(<< <<"status", JStr("read")>>,
                                          <<"recipient_id", JStr("923001")>> >>) >>)>> >>)

\* A request body: bytes that json.loads rejects, or the value it yields.
Unparseable == [json |-> FALSE]
Parsed(v) == [json |-> TRUE, v |-> v]

StatusBody == Parsed(Envelope(StatusUpdate))
TwoMessages ==
    Parsed(Envelope(JObj(<< <<"messages", JArr(<< TextMessage("923001", "hi"),
                                                  TextMessage("923002", "hi") >>)>> >>)))
Messages(list) == Parsed(Envelope(JObj(<< <<"messages", JArr(list)>> >>)))

\* The malformed and irrelevant bodies, one per place where the handler's
\* navigation can stop.
OddBodies ==
    { Unparseable,
      Parsed(JNull),
      Parsed(JNum),
      Parsed(JStr("context")),
      Parsed(JStr("")),
      Parsed(JArr(<<>>)),
      Parsed(JObj(<<>>)),
      Parsed(JObj(<< <<"entry", JArr(<<>>)>> >>)),
      Parsed(JObj(<< <<"entry", JObj(<<>>)>> >>)),
      Parsed(JObj(<< <<"entry", JArr(<< JObj(<<>>) >>)>> >>)),
      Parsed(JObj(<< <<"entry", JArr(<< JObj(<< <<"changes", JArr(<<>>)>> >>) >>)>> >>)),
      Parsed(JObj(<< <<"entry", JArr(<< JObj(<< <<"changes", JArr(<< JObj(<<>>) >>)>> >>) >>)>> >>)),
      Parsed(Envelope(JNull)),
      Parsed(Envelope(JStr("messages"))),
      Parsed(Envelope(JObj(<<>>))),
      StatusBody,
      Parsed(Envelope(JObj(<< <<"messages", JNull>> >>))),
      Messages(<<>>),
      Parsed(Envelope(JObj(<< <<"messages", JObj(<< <<"0", TextMessage("923001", "hi")>> >>)>> >>))),
      Messages(<< JNum >>),
      Messages(<< JStr("context") >>),
      Messages(<< JObj(<< <<"from", JStr("923001")>>, <<"type", JStr("image")>>,
                          <<"image", JObj(<<>>)>> >>) >>),
      Messages(<< JObj(<< <<"type", JStr("text")>>,
                          <<"text", JObj(<< <<"body", JStr("hi")>> >>)>> >>) >>),
      Messages(<< JObj(<< <<"from", JStr("923001")>>, <<"text", JObj(<<>>)>> >>) >>),
      Messages(<< JObj(<< <<"from", JStr("923001")>>, <<"text", JStr("context")>> >>) >>),
      Messages(<< JObj(<< <<"from", JStr("923001")>>, <<"text", JNull>> >>) >>),
      Messages(<< JObj(<< <<"from", JStr("923001")>>, <<"text", JArr(<< JStr("body") >>)>> >>) >>),
      TwoMessages,
      Parsed(Envelope(JObj(<< <<"messages", JArr(<< TextMessage("923002", "hi") >>)>>,
                              <<"statuses", JArr(<<>>)>> >>))) }

\* The well-formed text messages, one per (sender, text).
TextBodies == {Messages(<< TextMessage(s, t) >>) : s \in Senders, t \in Texts}
GatewayTexts == Texts \cup {"", "book"}

AllBodies ==
    OddBodies \cup {Messages(<< TextMessage(s, t) >>) : s \in Senders, t \in GatewayTexts}
\* The bodies the full system is run on: a status update and every
\* well-formed text message.
CoreBodies == {StatusBody} \cup TextBodies

(***************************************************************************)
(* POST /webhook (app.py, webhook_handler).                                *)
(***************************************************************************)
Bind(x, F(_)) == IF x.ok THEN F(x.v) ELSE Raise

\* A job handed to BackgroundTasks.add_task: handle_message_logic's arguments.
Task(sender_id, user_message) == [sender |-> sender_id, text |-> user_message]

\* app.py:204. Python evaluates msg['from'], then msg['text']['body'], then
\* calls add_task; the value is the list of tasks added, or an exception.
add_task(msg) ==
    Bind(GetKey(msg, "from"), LAMBDA from :
    Bind(GetKey(msg, "text"), LAMBDA text :
    Bind(GetKey(text, "body"), LAMBDA body :
        Ok(<<Task(from, body)>>))))

\* app.py:196-204, the body of the try block: the tasks it adds, or an
\* exception raised on the way.
try_block(data) ==
    Bind(GetKey(data, "entry"), LAMBDA e1 :
    Bind(GetFirst(e1), LAMBDA e2 :
    Bind(GetKey(e2, "changes"), LAMBDA e3 :
    Bind(GetFirst(e3), LAMBDA e4 :
    Bind(GetKey(e4, "value"), LAMBDA entry :
    Bind(Contains(entry, "messages"), LAMBDA hasMessages :
        IF ~hasMessages THEN Ok(<<>>)
        ELSE Bind(GetKey(entry, "messages"), LAMBDA msgs :
             Bind(GetFirst(msgs), LAMBDA msg :
             Bind(Contains(msg, "text"), LAMBDA hasText :
                 IF ~hasText THEN Ok(<<>>) ELSE add_task(msg))))))))))

Received == [status |-> 200, body |-> "{\"status\": \"received\"}"]
InternalServerError == [status |-> 500, body |-> "Internal Server Error"]
NoResponse == [status |-> 0, body |-> ""]

\* app.py:189-210: the response and the background tasks of one request.
\* request.json() (line 193) is outside the try: its exception leaves the
\* handler and the framework answers 500. Inside the try every exception is
\* caught (line 206) and the acknowledgment is returned (line 210).
webhook_handler_result(body) ==
    IF ~body.json THEN [resp |-> InternalServerError, tasks |-> <<>>]
    ELSE LET t == try_block(body.v)
         IN [resp |-> Received, tasks |-> IF t.ok THEN t.v ELSE <<>>]

(***************************************************************************)
(* The message store (table message_store of memory.db).                   *)
(***************************************************************************)
\* A chat message as LangChain holds it.
Message(type, content) == [type |-> type, content |-> content]

\* SQLChatMessageHistory's encoding of a message, json.dumps(message_to_dict(m)):
\* {"type": ..., "data": {"content": ..., "type": ...}}.
to_sql_model(m) ==
    Parsed(JObj(<< <<"type", JStr(m.type)>>,
                   <<"data", JObj(<< <<"content", JStr(m.content)>>,
                                     <<"type", JStr(m.type)>> >>)>> >>))

\* ... and its decoding, messages_from_dict([json.loads(blob)]).
from_sql_model(blob) ==
    Message(KeyVal(blob.v, "type").s, KeyVal(KeyVal(blob.v, "data"), "content").s)

Max(S) == CHOOSE x \in S : \A y \in S : y <= x

\* id INTEGER PRIMARY KEY AUTOINCREMENT (db_ui.py:31): the next key is above
\* every key the table holds.
next_id(store) == IF store = {} THEN 1 ELSE Max({row.id : row \in store}) + 1

\* A message the session already holds is not inserted again.
RECURSIVE add_messages_distinct(_, _, _)
add_messages_distinct(store, session_id, msgs) ==
    IF msgs = <<>> THEN store
    ELSE add_messages_distinct(
            IF \E row \in store : row.session_id = session_id
                                  /\ row.message = to_sql_model(Head(msgs))
            THEN store
            ELSE store \cup {[id |-> next_id(store), session_id |-> session_id,
                              message |-> to_sql_model(Head(msgs))]},
            session_id, Tail(msgs))

\* One INSERT per message, in the order given.
RECURSIVE add_messages(_, _, _)
add_messages(store, session_id, msgs) ==
    IF msgs = <<>> THEN store
    ELSE add_messages(
            store \cup {[id |-> next_id(store), session_id |-> session_id,
                         message |-> to_sql_model(Head(msgs))]},
            session_id, Tail(msgs))

\* SELECT ... WHERE session_id = ? ORDER BY id ASC: the rows of one session,
\* smallest id first.
RECURSIVE order_by_id(_)
order_by_id(rows) ==
    IF rows = {} THEN <<>>
    ELSE LET first == CHOOSE r \in rows : \A q \in rows : r.id <= q.id
         IN <<first>> \o order_by_id(rows \ {first})

select_session(store, session_id) ==
    order_by_id({row \in store : row.session_id = session_id})

\* SQLChatMessageHistory.messages: the session's history as the agent reads it.
sql_messages(store, session_id) ==
    LET rows == select_session(store, session_id)
    IN [i \in 1..Len(rows) |-> from_sql_model(rows[i].message)]

(***************************************************************************)
(* The dashboard's read of a session (db_ui.py, get_chat_history_for_ui).  *)
(***************************************************************************)
\* Python's truth value of a JSON value (JNum stands for a non-zero number).
Truthy(v) ==
    CASE v.t = "str" -> v.s # ""
      [] v.t = "arr" -> Len(v.e) > 0
      [] v.t = "obj" -> Len(v.kv) > 0
      [] v.t = "num" -> TRUE
      [] OTHER -> FALSE

\* dict.get(k, default); AttributeError on anything that is not a dict.
DictGet(v, k, default) ==
    IF v.t = "obj" THEN Ok(IF HasKey(v, k) THEN KeyVal(v, k) ELSE default) ELSE Raise

\* db_ui.py:119-124: the content of a decoded message, by the first shape
\* whose keys are present.
message_content(msg_data) ==
    LET inData == IF HasKey(msg_data, "data")
                  THEN Contains(KeyVal(msg_data, "data"), "content")
                  ELSE Ok(FALSE)
    IN  Bind(inData, LAMBDA c :
            IF c THEN GetKey(KeyVal(msg_data, "data"), "content")
            ELSE IF HasKey(msg_data, "content") THEN Ok(KeyVal(msg_data, "content"))
            ELSE IF HasKey(msg_data, "kwargs")
                 THEN DictGet(KeyVal(msg_data, "kwargs"), "content", JStr(""))
            ELSE Ok(JStr("")))

\* db_ui.py:111-129: the entries (none or one) a stored row adds to the
\* history; any exception skips the row.
decode_row(blob) ==
    IF ~blob.json THEN <<>>
    ELSE LET msg_type == DictGet(blob.v, "type", JStr("unknown"))
         IN IF ~msg_type.ok THEN <<>>
            ELSE LET content == message_content(blob.v)
                 IN IF content.ok /\ Truthy(content.v)
                    THEN << [type |-> msg_type.v, text |-> content.v] >>
                    ELSE <<>>

RECURSIVE order_by_id_desc(_)
order_by_id_desc(rows) ==
    IF rows = {} THEN <<>>
    ELSE LET first == CHOOSE r \in rows : \A q \in rows : r.id >= q.id
         IN <<first>> \o order_by_id_desc(rows \ {first})

\* ORDER BY id DESC in place of ASC.
select_for_ui_desc(store, session_id) ==
    order_by_id_desc({row \in store : row.session_id = session_id})

\* db_ui.py:109: SELECT message FROM message_store WHERE session_id = ?
\* ORDER BY id ASC.
select_for_ui(store, session_id) ==
    order_by_id({row \in store : row.session_id = session_id})

\* The first row that raises ends the read: the rows after it are lost.
RECURSIVE decode_rows_abort(_)
decode_rows_abort(rows) ==
    IF rows = <<>> THEN <<>>
    ELSE IF ~Head(rows).message.json THEN <<>>
    ELSE decode_row(Head(rows).message) \o decode_rows_abort(Tail(rows))

\* db_ui.py:110-129: the loop over the rows; the try inside it confines a
\* row's exception to that row.
RECURSIVE decode_rows(_)
decode_rows(rows) ==
    IF rows = <<>> THEN <<>>
    ELSE decode_row(Head(rows).message) \o decode_rows(Tail(rows))

\* The file is taken to exist whatever its state.
exists_unchecked(db) == TRUE

\* os.path.exists(DB_FILE), db_ui.py:91 and 104.
exists(db) == db # "no_file"

\* sqlite3.connect(DB_FILE) followed by a statement: a missing file is
\* created, empty.
connect(db) == IF db = "no_file" THEN "no_table" ELSE db

\* A SELECT on message_store raises OperationalError when the table is missing.
has_table(db) == db = "ready"

\* db_ui.py:103-133: the history and the state memory.db is left in.
get_chat_history_for_ui(db, store, session_id) ==
    IF ~exists(db) THEN [history |-> <<>>, db_file |-> db]
    ELSE LET conn == connect(db)
         IN IF ~has_table(conn) THEN [history |-> <<>>, db_file |-> conn]
            ELSE [history |-> decode_rows(select_for_ui(store, session_id)),
                  db_file |-> conn]

\* Python's truth value of a session id read from the table.
is_true(session_id) == session_id # ""

\* db_ui.py:90-101: the contacts and the state memory.db is left in. SELECT
\* DISTINCT fixes no order, so the list is modelled by the set of its elements.
get_all_contacts_from_db(db, store) ==
    IF ~exists(db) THEN [contacts |-> {}, db_file |-> db]
    ELSE LET conn == connect(db)
         IN IF ~has_table(conn) THEN [contacts |-> {}, db_file |-> conn]
            ELSE [contacts |-> {row.session_id : row \in {q \in store : is_true(q.session_id)}},
                  db_file |-> conn]

(***************************************************************************)
(* Message stores as earlier runs, and other versions of the runtime, may  *)
(* have left them: the inputs of the dashboard's reads.                    *)
(***************************************************************************)
MaxRows == 3
StoreSessions == {"923001", ""}

\* The three encodings db_ui.py:119-124 knows: data.content, content,
\* kwargs.content.
Shape1(type, content) == to_sql_model(Message(type, content))
Shape2(type, content) ==
    Parsed(JObj(<< <<"type", JStr(type)>>, <<"content", JStr(content)>> >>))
Shape3(type, content) ==
    Parsed(JObj(<< <<"type", JStr(type)>>,
                   <<"kwargs", JObj(<< <<"content", JStr(content)>> >>)>> >>))

\* {"type": "ai", "data": {"content": ""}, "content": "hello"}
EmptyThenText ==
    Parsed(JObj(<< <<"type", JStr("ai")>>,
                   <<"data", JObj(<< <<"content", JStr("")>> >>)>>,
                   <<"content", JStr("hello")>> >>))

\* Invalid JSON, JSON that is not an object, an object with none of the paths.
Unrecognized ==
    {Unparseable, Parsed(JArr(<<>>)), Parsed(JObj(<< <<"type", JStr("ai")>> >>))}

StoredBlobs ==
    {Shape1("human", "hi"), Shape2("ai", "hi"), Shape3("ai", "hi"), EmptyThenText}
        \cup Unrecognized

\* What a row may hold: any of the blobs for the sender, one message for the
\* empty session id.
StoredRows ==
    {<<s, m>> \in StoreSessions \X StoredBlobs : s # "" \/ m = Shape1("human", "hi")}

\* The tables of at most MaxRows rows, keyed 1, 2, ... in insertion order.
Stores ==
    UNION {{ {[id |-> i, session_id |-> f[i][1], message |-> f[i][2]] : i \in 1..n} :
                f \in [1..n -> StoredRows] } : n \in 0..MaxRows}

(***************************************************************************)
(* The answer to one message (bot.py, process_ai_response).                *)
(***************************************************************************)
APOLOGY == "I'm sorry, I encountered an internal error. Please try again."
\* AgentExecutor's answer when its iteration limit stops the loop.
STOP_TEXT == "Agent stopped due to max iterations."
\* AgentExecutor(agent=agent, tools=tools, verbose=True) keeps the default
\* limit on the iterations of the tool-calling loop.
max_iterations == 15

HumanMessage(content) == Message("human", content)
AIMessage(content) == Message("ai", content)

\* The output is stored before the input.
exit_history_swapped(store, session_id, input, output) ==
    add_messages(store, session_id, <<AIMessage(output), HumanMessage(input)>>)

\* RunnableWithMessageHistory when the wrapped run ends: the input and the
\* output are added to the session's history, in this order.
exit_history(store, session_id, input, output) ==
    add_messages(store, session_id, <<HumanMessage(input), AIMessage(output)>>)

\* The input is stored although the run raised.
error_history_keeps_input(store, session_id, input) ==
    add_messages(store, session_id, <<HumanMessage(input)>>)

\* ... and when the wrapped run raises: nothing is added.
error_history(store, session_id, input) == store

\* The exception is not caught: it leaves process_ai_response.
process_ai_response_reraise(outcome) ==
    IF outcome.ok THEN [pc |-> "returned", out |-> <<outcome.v>>]
    ELSE [pc |-> "raised", out |-> <<>>]

\* bot.py:141-149: what process_ai_response does with the outcome of
\* agent_with_history.invoke: the output is returned, an exception is caught
\* and the apology returned.
process_ai_response(outcome) ==
    IF outcome.ok THEN [pc |-> "returned", out |-> <<outcome.v>>]
    ELSE [pc |-> "returned", out |-> <<APOLOGY>>]

(***************************************************************************)
(* GET /webhook (app.py, verify_webhook).                                  *)
(***************************************************************************)
\* An optional string: a query parameter that may be absent (params.get
\* gives None), an environment variable that may be unset (os.getenv gives
\* None).
None == <<>>
Some(x) == <<x>>

Modes == {None, Some("subscribe"), Some("unsubscribe")}
Tokens == {None, Some(""), Some("s3cret"), Some("guess")}
Challenges == {None, Some(""), Some("1158201444")}
Secrets == {None, Some(""), Some("s3cret")}

\* PlainTextResponse renders a content of None as the empty body.
render(content) == IF content = None THEN "" ELSE content[1]

\* app.py:183-186.
verify_webhook_result(mode, token, challenge, secret) ==
    IF mode = Some("subscribe") /\ token = secret
    THEN [status |-> 200, body |-> render(challenge)]
    ELSE [status |-> 403, body |-> "{\"detail\": \"Verification Failed\"}"]

(***************************************************************************)
(* The dashboard's accounts (db_ui.py, section 1) and session cookies.     *)
(***************************************************************************)
ADMIN_USER == "admin"
ADMIN_PASS == "admin123"

Browsers == {"b1", "b2"}
Usernames == {ADMIN_USER, "bob"}
Passwords == {ADMIN_PASS, "pw"}
Roles == {"admin", "viewer"}

\* pwd_context.hash and pwd_context.verify (bcrypt).
hash(password) == <<"bcrypt", password>>
verify(password, password_hash) == password_hash = hash(password)

\* db_ui.py:37-41: the default admin is inserted unless a row of that name
\* exists.
init_db(rows, default_admin, default_pass) ==
    IF \E u \in rows : u.username = default_admin THEN rows
    ELSE rows \cup {[username |-> default_admin, password_hash |-> hash(default_pass),
                     role |-> "admin"]}

\* db_ui.py:47-57: the role of the account, None when the name or the
\* password is wrong.
authenticate_user(rows, username, password) ==
    LET row == {u \in rows : u.username = username}
    IN IF row # {} /\ verify(password, (CHOOSE u \in row : TRUE).password_hash)
       THEN Some((CHOOSE u \in row : TRUE).role)
       ELSE None

\* db_ui.py:59-69: username is the primary key, so a second INSERT of a name
\* fails with IntegrityError and changes nothing.
create_user(rows, username, password, role) ==
    IF \E u \in rows : u.username = username THEN rows
    ELSE rows \cup {[username |-> username, password_hash |-> hash(password),
                     role |-> role]}

\* db_ui.py:71-75, delete_user: DELETE FROM users WHERE username = ?.
db_ui_delete_user(rows, username) == {u \in rows : u.username # username}

\* request.session of a browser without a cookie, and after a login.
NoSession == [user |-> None, role |-> None]
LoggedIn(username, role) == [user |-> Some(username), role |-> Some(role)]

(***************************************************************************)
(* The Google tools (google_tools.py).                                     *)
(***************************************************************************)
\* token.json: missing, present but unreadable or malformed, or holding a
\* credential: whether it has an access token, whether that token has
\* expired, whether it has a refresh token.
NoTokenFile == [exists |-> FALSE]
MalformedTokenFile == [exists |-> TRUE, loads |-> FALSE]
Credential(token, expired, refresh_token) ==
    [exists |-> TRUE, loads |-> TRUE, token |-> token, expired |-> expired,
     refresh_token |-> refresh_token]
TokenFiles ==
    {NoTokenFile, MalformedTokenFile}
        \cup {Credential(t, e, r) : t \in BOOLEAN, e \in BOOLEAN, r \in BOOLEAN}
SheetIds == {None, Some("sheet1")}

\* Credentials.valid: an access token that has not expired.
valid(creds) == creds.token /\ ~creds.expired

\* Credentials.refresh when it succeeds: a fresh access token.
refresh(creds) == [creds EXCEPT !.token = TRUE, !.expired = FALSE]

\* google_tools.py:16-30. creds is None or the credential returned,
\* refreshed whether and how a refresh was attempted; from_authorized_user_file
\* (line 20) raises on a file it cannot load, and nothing catches it.
get_creds(file, refresh_ok) ==
    IF ~file.exists THEN [ok |-> TRUE, creds |-> None, refreshes |-> 0]
    ELSE IF ~file.loads THEN [ok |-> FALSE, creds |-> None, refreshes |-> 0]
    ELSE IF valid(file) THEN [ok |-> TRUE, creds |-> Some(file), refreshes |-> 0]
    ELSE IF file.expired /\ file.refresh_token
         THEN IF refresh_ok
              THEN [ok |-> TRUE, creds |-> Some(refresh(file)), refreshes |-> 1]
              ELSE [ok |-> TRUE, creds |-> None, refreshes |-> 1]
    ELSE [ok |-> TRUE, creds |-> Some(file), refreshes |-> 0]

\* The texts the tools return, without the cross or check mark they start with.
TOKEN_INVALID == "Error: Google Token is invalid."
SHEET_ID_MISSING == "Error: GOOGLE_SHEET_ID is missing in .env file."
Succeeded(name) ==
    CASE name = "add_calendar_event" -> "Event created successfully"
      [] name = "send_gmail" -> "Email sent successfully"
      [] name = "add_expense_row" -> "Data logged to sheet."
Failed(name) ==
    CASE name = "add_calendar_event" -> "Failed to create event"
      [] name = "send_gmail" -> "Failed to send email"
      [] name = "add_expense_row" -> "Failed to update sheet"

\* The body the three tools share (google_tools.py:44-62, 74-88, 104-122):
\* get_creds outside the try, then the provider call inside it. The provider
\* rejects a credential that is not valid and cannot be refreshed.
with_creds(name, file, refresh_ok, provider_ok) ==
    LET got == get_creds(file, refresh_ok)
    IN IF ~got.ok
       THEN [name |-> name, refreshes |-> got.refreshes, calls |-> <<>>, result |-> Raise]
       ELSE IF got.creds = None
       THEN [name |-> name, refreshes |-> got.refreshes, calls |-> <<>>,
             result |-> Ok(TOKEN_INVALID)]
       ELSE LET creds == got.creds[1]
                accepted == provider_ok /\ (valid(creds) \/ creds.refresh_token)
            IN [name |-> name, refreshes |-> got.refreshes, calls |-> <<creds>>,
                result |-> Ok(IF accepted THEN Succeeded(name) ELSE Failed(name))]

(***************************************************************************)
(* State.                                                                  *)
(***************************************************************************)
VARIABLES
    VERIFY_TOKEN,   \* app.py:27, the configured handshake secret
    handshake,      \* the last GET /webhook: its parameters and its response
    req,            \* the POST /webhook requests: phase, body, response, tasks
    job,            \* the background job of each request
    loop,           \* the request whose job occupies the event loop, or 0
    message_store,  \* the rows of table message_store
    deliveries,     \* the outbound calls made to the messaging transport
    ui,             \* the dashboard's read of a session just made, if any
    appended,       \* history: per session, the messages added, in the order added
    db_file,        \* memory.db: "no_file", "no_table" (no message_store table) or "ready"
    users,          \* the rows of table users
    session,        \* the session cookie each browser holds
    token_json,     \* token.json, the stored Google credential
    GOOGLE_SHEET_ID,\* google_tools.py:100, the configured spreadsheet
    tool            \* the last call of a Google tool: what it did and returned

dashboard == <<users, session>>
google == <<token_json, GOOGLE_SHEET_ID, tool>>
vars == <<VERIFY_TOKEN, handshake, req, job, loop, message_store, deliveries, ui, appended,
          db_file, users, session, token_json, GOOGLE_SHEET_ID, tool>>

Requests == 1..MaxRequests

NoBody == [json |-> FALSE, none |-> TRUE]
NoRequest == [phase |-> "none", body |-> NoBody, resp |-> NoResponse, tasks |-> <<>>]
\* how: the way the answer came about ("final", "limit", "model_error",
\* "tool_error"), known from the return to the end of the job, and then
\* "answer" or "error".
NoJob == [pc |-> "none", ctx |-> <<>>, iterations |-> 0, out |-> <<>>, how |-> ""]
NoRead == [read |-> FALSE, session_id |-> "", history |-> <<>>, repeated |-> FALSE,
           previous |-> <<>>, listed |-> FALSE, contacts |-> {}]
NoHandshake == [mode |-> None, token |-> None, challenge |-> None, resp |-> NoResponse]
NoTool == [name |-> "", refreshes |-> 0, calls |-> <<>>, result |-> NoResponse]

\* The state once startup_db has run init_db on a fresh memory.db.
InitWith(secrets) ==
    /\ VERIFY_TOKEN \in secrets
    /\ handshake = NoHandshake
    /\ req = [r \in Requests |-> NoRequest]
    /\ job = [r \in Requests |-> NoJob]
    /\ loop = 0
    /\ message_store = {}
    /\ deliveries = <<>>
    /\ ui = NoRead
    /\ appended = [s \in Senders |-> <<>>]
    /\ db_file = "ready"
    /\ users = init_db({}, ADMIN_USER, ADMIN_PASS)
    /\ session = [b \in Browsers |-> NoSession]
    /\ token_json = NoTokenFile
    /\ GOOGLE_SHEET_ID = None
    /\ tool = NoTool

Init == InitWith({Some("s3cret")})
InitGateway == InitWith(Secrets)

(***************************************************************************)
(* Actions.                                                                *)
(***************************************************************************)
\* A client sends the GET /webhook handshake.
verify_webhook ==
    /\ \E mode \in Modes, token \in Tokens, challenge \in Challenges :
          handshake' = [mode |-> mode, token |-> token, challenge |-> challenge,
                        resp |-> verify_webhook_result(mode, token, challenge, VERIFY_TOKEN)]
    /\ UNCHANGED <<dashboard, google, db_file, VERIFY_TOKEN, req, job, loop, message_store, deliveries, appended>>
    /\ ui' = NoRead

\* A client posts a body to /webhook; requests are numbered as they arrive.
\* The server need not be idle: the connection waits until the loop is free.
Arrive(bodies, limit) ==
    \E r \in Requests, b \in bodies :
        /\ r <= limit
        /\ req[r].phase = "none"
        /\ \A q \in Requests : q < r => req[q].phase # "none"
        /\ req' = [req EXCEPT ![r].phase = "arrived", ![r].body = b]
        /\ UNCHANGED <<dashboard, google, db_file, VERIFY_TOKEN, handshake, job, loop, message_store, deliveries, appended>>
    /\ ui' = NoRead

\* app.py:189-210 runs on the event loop, from the request to the return.
webhook_handler(r) ==
    /\ loop = 0
    /\ req[r].phase = "arrived"
    /\ LET res == webhook_handler_result(req[r].body)
       IN req' = [req EXCEPT ![r].phase = "responded", ![r].resp = res.resp,
                             ![r].tasks = res.tasks]
    /\ UNCHANGED <<dashboard, google, db_file, VERIFY_TOKEN, handshake, job, loop, message_store, deliveries, appended>>
    /\ ui' = NoRead

\* The framework sends the response the handler returned.
send_response(r) ==
    /\ loop = 0
    /\ req[r].phase = "responded"
    /\ req' = [req EXCEPT ![r].phase = "sent"]
    /\ UNCHANGED <<dashboard, google, db_file, VERIFY_TOKEN, handshake, job, loop, message_store, deliveries, appended>>
    /\ ui' = NoRead

\* The tasks run as soon as the handler has returned.
background_eager(r) == req[r].phase \in {"responded", "sent"}

\* BackgroundTasks (app.py:189, 204): the tasks of a request run once its
\* response has been sent.
background_ready(r) == req[r].phase = "sent"

\* The job is run off the event loop, whatever else is running.
handle_message_logic_threaded(r) ==
    /\ background_ready(r)
    /\ Len(req[r].tasks) > 0
    /\ job[r].pc = "none"
    /\ loop' = r
    /\ job' = [job EXCEPT ![r].pc = "invoke"]
    /\ UNCHANGED <<dashboard, google, db_file, VERIFY_TOKEN, handshake, req, message_store,
                   deliveries, appended>>
    /\ ui' = NoRead

\* handle_message_logic is a coroutine function (app.py:74), so the framework
\* awaits it on the event loop; its body has no await, so it keeps the loop
\* from its first statement to its last.
handle_message_logic(r) ==
    /\ loop = 0
    /\ background_ready(r)
    /\ Len(req[r].tasks) > 0
    /\ job[r].pc = "none"
    /\ loop' = r
    /\ job' = [job EXCEPT ![r].pc = "invoke"]
    /\ UNCHANGED <<dashboard, google, db_file, VERIFY_TOKEN, handshake, req, message_store, deliveries, appended>>
    /\ ui' = NoRead

sender_id(r) == req[r].tasks[1].sender.s
user_message(r) == req[r].tasks[1].text.s

\* agent_with_history.invoke (bot.py:142) first loads the session's history
\* into the prompt's chat_history.
enter_history(r) ==
    /\ loop = r
    /\ job[r].pc = "invoke"
    /\ job' = [job EXCEPT ![r].pc = "model",
                          ![r].ctx = sql_messages(message_store, sender_id(r))]
    /\ UNCHANGED <<dashboard, google, db_file, VERIFY_TOKEN, handshake, req, loop, message_store, deliveries, appended>>
    /\ ui' = NoRead

\* The run ended with `output`: the exchange is stored and the output returned.
Finish(r, output, how) ==
    /\ message_store' = exit_history(message_store, sender_id(r), user_message(r), output)
    /\ appended' = [appended EXCEPT ![sender_id(r)] =
                        @ \o <<HumanMessage(user_message(r)), AIMessage(output)>>]
    /\ LET ret == process_ai_response(Ok(output))
       IN job' = [job EXCEPT ![r].pc = ret.pc, ![r].out = ret.out, ![r].how = how,
                             ![r].iterations = 0]

\* The run raised in step `what`.
Fail(r, what) ==
    /\ message_store' = error_history(message_store, sender_id(r), user_message(r))
    /\ appended' = appended
    /\ LET ret == process_ai_response(Raise)
       IN job' = [job EXCEPT ![r].pc = ret.pc, ![r].out = ret.out, ![r].how = what,
                             ![r].iterations = 0]

\* One call of the language model: it raises, it finalizes with a text, or it
\* requests a tool.
model_call(r) ==
    /\ loop = r
    /\ job[r].pc = "model"
    /\ \/ Fail(r, "model_error")
       \/ \E t \in ModelTexts : Finish(r, t, "final")
       \/ /\ job' = [job EXCEPT ![r].pc = "tool"]
          /\ UNCHANGED <<message_store, appended>>
    /\ UNCHANGED <<dashboard, google, db_file, VERIFY_TOKEN, handshake, req, loop, deliveries>>
    /\ ui' = NoRead

\* The loop has no iteration limit: a tool result always leads to another
\* model call.
tool_call_unbounded(r) ==
    /\ loop = r
    /\ job[r].pc = "tool"
    /\ \/ Fail(r, "tool_error")
       \/ /\ job' = [job EXCEPT ![r].pc = "model"]
          /\ UNCHANGED <<message_store, appended>>
    /\ UNCHANGED <<dashboard, google, db_file, VERIFY_TOKEN, handshake, req, loop, deliveries>>
    /\ ui' = NoRead

\* One tool invocation: it raises (arguments the tool's schema rejects), or it
\* returns its result text, which ends the iteration; the loop stops with
\* STOP_TEXT at the iteration limit.
tool_call(r) ==
    /\ loop = r
    /\ job[r].pc = "tool"
    /\ \/ Fail(r, "tool_error")
       \/ /\ job[r].iterations + 1 >= max_iterations
          /\ Finish(r, STOP_TEXT, "limit")
       \/ /\ job[r].iterations + 1 < max_iterations
          /\ job' = [job EXCEPT ![r].pc = "model", ![r].iterations = @ + 1]
          /\ UNCHANGED <<message_store, appended>>
    /\ UNCHANGED <<dashboard, google, db_file, VERIFY_TOKEN, handshake, req, loop, deliveries>>
    /\ ui' = NoRead

\* A failed POST is tried once more.
post_calls_retry(r, recipient_id, text, ok) ==
    IF ok THEN << [job |-> r, to |-> recipient_id, text |-> text, ok |-> TRUE] >>
    ELSE << [job |-> r, to |-> recipient_id, text |-> text, ok |-> FALSE],
            [job |-> r, to |-> recipient_id, text |-> text, ok |-> TRUE] >>

\* app.py:68-72: one POST to the transport; an exception is caught.
post_calls(r, recipient_id, text, ok) ==
    << [job |-> r, to |-> recipient_id, text |-> text, ok |-> ok] >>

\* What is remembered of a job that is over: whether it ended with an answer.
ended(how) == IF how \in {"final", "limit"} THEN "answer" ELSE "error"

\* app.py:77, send_to_whatsapp(sender_id, ai_response); the job ends, its
\* locals are gone and the event loop is free.
send_to_whatsapp(r) ==
    /\ loop = r
    /\ job[r].pc = "returned"
    /\ \E ok \in BOOLEAN :
          deliveries' = deliveries \o post_calls(r, sender_id(r), job[r].out[1], ok)
    /\ job' = [job EXCEPT ![r] = [NoJob EXCEPT !.pc = "done", !.out = job[r].out,
                                                 !.how = ended(job[r].how)]]
    /\ loop' = 0
    /\ UNCHANGED <<dashboard, google, db_file, VERIFY_TOKEN, handshake, req, message_store, appended>>
    /\ ui' = NoRead

\* app.py:86-102, login: a matching account puts its name and role in the
\* browser's session cookie; otherwise the login page is shown again.
login(b, username, password) ==
    /\ loop = 0
    /\ LET role == authenticate_user(users, username, password)
       IN session' = IF role # None
                     THEN [session EXCEPT ![b] = LoggedIn(username, role[1])]
                     ELSE session
    /\ UNCHANGED <<users, google, db_file, VERIFY_TOKEN, handshake, req, job, loop,
                   message_store, deliveries, appended>>
    /\ ui' = NoRead

\* google_tools.py:33-62.
add_calendar_event ==
    /\ \E refresh_ok \in BOOLEAN, provider_ok \in BOOLEAN :
          tool' = with_creds("add_calendar_event", token_json, refresh_ok, provider_ok)
    /\ UNCHANGED <<dashboard, token_json, GOOGLE_SHEET_ID, db_file, VERIFY_TOKEN, handshake,
                   req, job, loop, message_store, deliveries, appended, ui>>

\* google_tools.py:65-88.
send_gmail ==
    /\ \E refresh_ok \in BOOLEAN, provider_ok \in BOOLEAN :
          tool' = with_creds("send_gmail", token_json, refresh_ok, provider_ok)
    /\ UNCHANGED <<dashboard, token_json, GOOGLE_SHEET_ID, db_file, VERIFY_TOKEN, handshake,
                   req, job, loop, message_store, deliveries, appended, ui>>

\* google_tools.py:91-122: without GOOGLE_SHEET_ID the tool returns before it
\* asks for the credential.
add_expense_row ==
    /\ \E refresh_ok \in BOOLEAN, provider_ok \in BOOLEAN :
          tool' = IF GOOGLE_SHEET_ID = None
                  THEN [name |-> "add_expense_row", refreshes |-> 0, calls |-> <<>>,
                        result |-> Ok(SHEET_ID_MISSING)]
                  ELSE with_creds("add_expense_row", token_json, refresh_ok, provider_ok)
    /\ UNCHANGED <<dashboard, token_json, GOOGLE_SHEET_ID, db_file, VERIFY_TOKEN, handshake,
                   req, job, loop, message_store, deliveries, appended, ui>>

\* app.py:104-107, logout: the cookie is cleared.
logout(b) ==
    /\ loop = 0
    /\ session' = [session EXCEPT ![b] = NoSession]
    /\ UNCHANGED <<users, google, db_file, VERIFY_TOKEN, handshake, req, job, loop,
                   message_store, deliveries, appended>>
    /\ ui' = NoRead

\* app.py:121-128, add_user: 403 unless the cookie's role is admin.
add_user(b, new_user, new_pass, role) ==
    /\ loop = 0
    /\ users' = IF session[b].role = Some("admin")
                 THEN create_user(users, new_user, new_pass, role)
                 ELSE users
    /\ UNCHANGED <<session, google, db_file, VERIFY_TOKEN, handshake, req, job, loop,
                   message_store, deliveries, appended>>
    /\ ui' = NoRead

\* The account is deleted and the message table emptied with it.
delete_user_and_messages(b, username) ==
    /\ loop = 0
    /\ users' = db_ui_delete_user(users, username)
    /\ message_store' = {}
    /\ UNCHANGED <<session, google, db_file, VERIFY_TOKEN, handshake, req, job, loop,
                   deliveries, appended>>
    /\ ui' = NoRead

\* app.py:130-140, delete_user: 403 unless the cookie's role is admin; the
\* account named is deleted unless it is the one the cookie names.
delete_user(b, username) ==
    /\ loop = 0
    /\ users' = IF session[b].role = Some("admin") /\ Some(username) # session[b].user
                 THEN db_ui_delete_user(users, username)
                 ELSE users
    /\ UNCHANGED <<session, google, db_file, VERIFY_TOKEN, handshake, req, job, loop,
                   message_store, deliveries, appended>>
    /\ ui' = NoRead

\* app.py:161-172, chat_view: a logged-in browser reads a session's history;
\* any other is redirected to the login page. ui is the response of this
\* read and, when the step just before it was a read of the same session,
\* the response of that one; any other step drops it.
chat_view(b, phone_number) ==
    /\ loop = 0
    /\ IF session[b].user = None
       THEN /\ ui' = NoRead
            /\ db_file' = db_file
       ELSE LET res == get_chat_history_for_ui(db_file, message_store, phone_number)
                again == ui.read /\ ui.session_id = phone_number
            IN /\ ui' = [NoRead EXCEPT !.read = TRUE, !.session_id = phone_number,
                                       !.history = res.history, !.repeated = again,
                                       !.previous = IF again THEN ui.history ELSE <<>>]
               /\ db_file' = res.db_file
    /\ UNCHANGED <<dashboard, google, VERIFY_TOKEN, handshake, req, job, loop,
                   message_store, deliveries, appended>>

\* app.py:145-159, index: a logged-in browser gets the contact list.
index(b) ==
    /\ loop = 0
    /\ IF session[b].user = None
       THEN /\ ui' = NoRead
            /\ db_file' = db_file
       ELSE LET res == get_all_contacts_from_db(db_file, message_store)
            IN /\ ui' = [NoRead EXCEPT !.listed = TRUE, !.contacts = res.contacts]
               /\ db_file' = res.db_file
    /\ UNCHANGED <<dashboard, google, VERIFY_TOKEN, handshake, req, job, loop,
                   message_store, deliveries, appended>>

Next ==
    \/ Arrive(CoreBodies, MaxRequests)
    \/ \E r \in Requests : webhook_handler(r)
    \/ \E r \in Requests : send_response(r)
    \/ \E r \in Requests : handle_message_logic(r)
    \/ \E r \in Requests : enter_history(r)
    \/ \E r \in Requests : model_call(r)
    \/ \E r \in Requests : tool_call(r)
    \/ \E r \in Requests : send_to_whatsapp(r)
    \/ login("b1", ADMIN_USER, ADMIN_PASS)
    \/ \E s \in Senders : chat_view("b1", s)

Spec == Init /\ [][Next]_vars

\* The gateway alone, on every body.
MaxProbes == 1
NextGateway ==
    \/ Arrive(AllBodies, MaxProbes)
    \/ \E r \in Requests : webhook_handler(r)
    \/ \E r \in Requests : send_response(r)

SpecGateway == Init /\ [][NextGateway]_vars

\* The whole application with one sender: webhook requests, background jobs,
\* history reads, contact listings and the dashboard's account operations.
MaxChats == 1
NextDashboard ==
    \/ Arrive({Messages(<< TextMessage("923001", "hi") >>)}, MaxChats)
    \/ \E r \in Requests : webhook_handler(r)
    \/ \E r \in Requests : send_response(r)
    \/ \E r \in Requests : handle_message_logic(r)
    \/ \E r \in Requests : enter_history(r)
    \/ \E r \in Requests : model_call(r)
    \/ \E r \in Requests : tool_call(r)
    \/ \E r \in Requests : send_to_whatsapp(r)
    \/ \E u \in Usernames : login("b1", u, IF u = ADMIN_USER THEN ADMIN_PASS ELSE "pw")
    \/ logout("b1")
    \/ \E role \in Roles : add_user("b1", "bob", "pw", role)
    \/ \E u \in Usernames : delete_user("b1", u)
    \/ chat_view("b1", "923001")
    \/ index("b1")

SpecDashboard == Init /\ [][NextDashboard]_vars

\* The answering of a message, with every step of process_ai_response taken
\* once it can be: the history is read, and each model call and each tool
\* call returns (with a result or an exception).
MaxInvocations == 1
NextLoop ==
    \/ Arrive({Messages(<< TextMessage(s, t) >>) : s \in Senders, t \in GatewayTexts},
              MaxInvocations)
    \/ \E r \in Requests : webhook_handler(r)
    \/ \E r \in Requests : send_response(r)
    \/ \E r \in Requests : handle_message_logic(r)
    \/ \E r \in Requests : enter_history(r)
    \/ \E r \in Requests : model_call(r)
    \/ \E r \in Requests : tool_call(r)
    \/ \E r \in Requests : send_to_whatsapp(r)

SpecLoop ==
    /\ Init
    /\ [][NextLoop]_vars
    /\ \A r \in Requests :
          WF_vars(enter_history(r)) /\ WF_vars(model_call(r)) /\ WF_vars(tool_call(r))

\* The account routes of the dashboard, requested from every browser with
\* every form value, while no message is being answered.
NextUsers ==
    \/ \E b \in Browsers, u \in Usernames, p \in Passwords : login(b, u, p)
    \/ \E b \in Browsers : logout(b)
    \/ \E b \in Browsers, u \in Usernames, p \in Passwords, role \in Roles :
          add_user(b, u, p, role)
    \/ \E b \in Browsers, u \in Usernames : delete_user(b, u)

SpecUsers == Init /\ [][NextUsers]_vars

\* The Google tools alone, for every state of token.json and of GOOGLE_SHEET_ID.
InitTools ==
    /\ VERIFY_TOKEN = Some("s3cret")
    /\ handshake = NoHandshake
    /\ req = [r \in Requests |-> NoRequest]
    /\ job = [r \in Requests |-> NoJob]
    /\ loop = 0
    /\ db_file = "ready"
    /\ message_store = {}
    /\ deliveries = <<>>
    /\ ui = NoRead
    /\ appended = [s \in Senders |-> <<>>]
    /\ users = init_db({}, ADMIN_USER, ADMIN_PASS)
    /\ session = [b \in Browsers |-> NoSession]
    /\ token_json \in TokenFiles
    /\ GOOGLE_SHEET_ID \in SheetIds
    /\ tool = NoTool

NextTools ==
    \/ add_calendar_event
    \/ send_gmail
    \/ add_expense_row

SpecTools == InitTools /\ [][NextTools]_vars

\* The dashboard's reads alone, on every store and every state of memory.db.
\* Browser b1 holds the cookie of an earlier login: the cookie is kept by the
\* browser and signed with SECRET_KEY, whatever has become of memory.db.
InitStore ==
    /\ VERIFY_TOKEN = Some("s3cret")
    /\ handshake = NoHandshake
    /\ req = [r \in Requests |-> NoRequest]
    /\ job = [r \in Requests |-> NoJob]
    /\ loop = 0
    /\ db_file \in {"no_file", "no_table", "ready"}
    /\ message_store \in (IF db_file = "ready" THEN Stores ELSE {{}})
    /\ deliveries = <<>>
    /\ ui = NoRead
    /\ appended = [s \in Senders |-> <<>>]
    /\ users = IF db_file = "no_file" THEN {} ELSE init_db({}, ADMIN_USER, ADMIN_PASS)
    /\ session = [b \in Browsers |->
                     IF b = "b1" THEN LoggedIn(ADMIN_USER, "admin") ELSE NoSession]
    /\ token_json = NoTokenFile
    /\ GOOGLE_SHEET_ID = None
    /\ tool = NoTool

NextStore ==
    \/ \E b \in Browsers, s \in StoreSessions \ {""} : chat_view(b, s)
    \/ \E b \in Browsers : index(b)

SpecStore == InitStore /\ [][NextStore]_vars

\* The handshake alone, for every configured secret.
NextHandshake == verify_webhook

SpecHandshake == InitGateway /\ [][NextHandshake]_vars

(***************************************************************************)
(* Claims.                                                                 *)
(***************************************************************************)
Answered(r) == req[r].phase \in {"responded", "sent"}

\* C1: every body posted to /webhook (unparseable, not an object, an envelope
\* with missing or wrongly-typed fields, a status update, a text message) is
\* answered with the acknowledgment {"status": "received"} and a success
\* status; the handler never raises.
C1_AlwaysAcknowledged ==
    \A r \in Requests : Answered(r) => req[r].resp = Received

\* C2: GET /webhook succeeds iff hub.mode is "subscribe" and hub.verify_token
\* equals the pre-shared secret, whatever is absent or unset; on success the
\* body is the challenge, otherwise the status is 403. A request without a
\* token presents no token, and an unset secret is no secret to equal.
C2_HandshakeIffSecret ==
    handshake.resp # NoResponse =>
        LET matches == /\ handshake.mode = Some("subscribe")
                       /\ handshake.token # None
                       /\ VERIFY_TOKEN # None
                       /\ handshake.token = VERIFY_TOKEN
        IN /\ handshake.resp.status = 200 <=> matches
           /\ matches => handshake.resp.body = render(handshake.challenge)
           /\ ~matches => handshake.resp.status = 403

\* The member k of an object and the first element of a list, Missing when
\* there is none.
Missing == [t |-> "missing"]
Member(v, k) == IF v.t = "obj" /\ HasKey(v, k) THEN KeyVal(v, k) ELSE Missing
First(v) == IF v.t = "arr" /\ Len(v.e) > 0 THEN v.e[1] ELSE Missing

\* entry[0].changes[0].value.messages[0] of a body.
FirstMessage(body) ==
    IF ~body.json THEN Missing
    ELSE First(Member(Member(First(Member(First(Member(body.v, "entry")), "changes")),
                             "value"), "messages"))
HasSenderAndText(msg) ==
    /\ Member(msg, "from") # Missing
    /\ Member(Member(msg, "text"), "body") # Missing

\* C3: a request schedules exactly one job, carrying (messages[0].from,
\* messages[0].text.body), when messages[0] has both a sender id and a text
\* body, and no job for every other body; never more than one.
C3_OneJobPerTextMessage ==
    \A r \in Requests : Answered(r) =>
        LET msg == FirstMessage(req[r].body)
        IN IF HasSenderAndText(msg)
           THEN req[r].tasks = << Task(Member(msg, "from"), Member(Member(msg, "text"), "body")) >>
           ELSE req[r].tasks = <<>>

\* Two messages in one envelope: one job, for the first.
C3_Witness ==
    \E r \in Requests :
        /\ req[r].phase = "sent"
        /\ req[r].body = TwoMessages
        /\ req[r].tasks = << Task(JStr("923001"), JStr("hi")) >>

Started(r) == job[r].pc # "none"
DeliveriesOf(r) == SelectSeq(deliveries, LAMBDA d : d.job = r)

\* C4: the job of a message (process_ai_response, then send_to_whatsapp)
\* starts only after the acknowledgment of its request has been returned, and
\* that acknowledgment is the same whether the job succeeds or fails.
C4_JobAfterAcknowledgment ==
    \A r \in Requests : Started(r) => req[r].phase = "sent" /\ req[r].resp = Received

\* A job that failed twice over (apology, delivery refused) behind its
\* acknowledgment.
C4_Witness ==
    \E r \in Requests :
        /\ job[r].pc = "done"
        /\ job[r].out = <<APOLOGY>>
        /\ \E i \in 1..Len(deliveries) : deliveries[i].job = r /\ ~deliveries[i].ok
        /\ req[r].resp = Received

\* C5: while a job is inside its model or tool call the request path is not
\* blocked: a request that has arrived can be handled and acknowledged before
\* the job finishes.
C5_RequestPathNotBlocked ==
    \A r, q \in Requests :
        (job[q].pc \in {"model", "tool"} /\ req[r].phase = "arrived")
            => ENABLED webhook_handler(r)

Returned(r) == job[r].pc = "returned"
OutputOf(texts) == {<<t>> : t \in texts}

WholeExchanges(h) ==
    /\ Len(h) % 2 = 0
    /\ \A i \in 1..Len(h) : h[i].type = (IF i % 2 = 1 THEN "human" ELSE "ai")

\* C7: when the model call fails, at whatever point of the loop,
\* process_ai_response returns the apology and has added nothing to the
\* session's log, which holds whole exchanges only.
C7_ModelFailureLeavesLog ==
    /\ \A r \in Requests :
          (Returned(r) /\ job[r].how = "model_error") =>
              /\ job[r].out = <<APOLOGY>>
              /\ sql_messages(message_store, sender_id(r)) = job[r].ctx
    /\ \A s \in Senders : WholeExchanges(sql_messages(message_store, s))

\* The model failed in a session that already holds an exchange.
C7_Witness ==
    \E r \in Requests :
        Returned(r) /\ job[r].how = "model_error" /\ Len(job[r].ctx) = 2

\* C8: an invocation that ends with an answer adds the input turn, then the
\* output turn, to the log of the session named by the sender id; the rows
\* already stored, and so every other session's log, stay as they are.
C8_AppendsExchange ==
    [][\A r \in Requests :
          (~Returned(r) /\ job'[r].pc = "returned" /\ job'[r].how \in {"final", "limit"}) =>
              /\ message_store \subseteq message_store'
              /\ \A s \in Senders :
                    sql_messages(message_store', s) =
                        IF s = sender_id(r)
                        THEN sql_messages(message_store, s)
                                \o <<HumanMessage(user_message(r)), AIMessage(job'[r].out[1])>>
                        ELSE sql_messages(message_store, s)]_vars

\* An answer was stored while the other session holds an exchange.
C8_Witness ==
    \E r \in Requests, s \in Senders :
        /\ Returned(r) /\ job[r].how = "final"
        /\ s # sender_id(r)
        /\ Len(sql_messages(message_store, s)) = 2
        /\ Len(sql_messages(message_store, sender_id(r))) = 2

\* C9: a job whose process_ai_response call returned makes exactly one
\* delivery call, to the sender of its message, with the text returned; a
\* failed call is absorbed and never repeated.
C9_OneDelivery ==
    \A r \in Requests :
        LET calls == DeliveriesOf(r)
        IN IF job[r].pc = "done"
           THEN /\ Len(calls) = 1
                /\ calls[1].to = sender_id(r)
                /\ calls[1].text = job[r].out[1]
           ELSE calls = <<>>

\* The delivery of an apology failed and the job is over.
C9_Witness ==
    \E r \in Requests :
        /\ job[r].pc = "done"
        /\ DeliveriesOf(r) = << [job |-> r, to |-> sender_id(r), text |-> APOLOGY,
                                 ok |-> FALSE] >>

\* What the dashboard shows of a log: the messages with a text, in order.
RECURSIVE Shown(_)
Shown(msgs) ==
    IF msgs = <<>> THEN <<>>
    ELSE (IF Head(msgs).content = "" THEN <<>>
          ELSE << [type |-> JStr(Head(msgs).type), text |-> JStr(Head(msgs).content)] >>)
         \o Shown(Tail(msgs))

\* C10: a read by get_chat_history_for_ui leaves the message store as it is,
\* returns what the read just before it returned (same session, nothing added
\* in between), and returns the entries in the order they were added.
C10_ReadIsStableAndOrdered ==
    [][ui'.read =>
          /\ message_store' = message_store
          /\ ui'.history = Shown(appended[ui'.session_id])
          /\ ui'.repeated => (ui'.previous = ui.history /\ ui'.history = ui'.previous)]_vars

\* A second read in a row of a session with two exchanges, one of whose
\* messages has no text.
C10_Witness ==
    /\ ui.read /\ ui.repeated
    /\ Len(appended[ui.session_id]) = 4
    /\ Len(ui.history) = 3
    /\ \E s \in Senders : s # ui.session_id

\* The entry the dashboard shows for a message of this type and text.
Entry(type, text) == [type |-> JStr(type), text |-> JStr(text)]

\* The text a stored value holds at data.content (1), content (2) or
\* kwargs.content (3); "" when the path is absent or holds no string.
TextAt(blob, shape) ==
    LET o == blob.v
        inner(k) == IF HasKey(o, k) /\ KeyVal(o, k).t = "obj" /\ HasKey(KeyVal(o, k), "content")
                    THEN KeyVal(KeyVal(o, k), "content")
                    ELSE JStr("")
        v == CASE shape = 1 -> inner("data")
               [] shape = 2 -> IF HasKey(o, "content") THEN KeyVal(o, "content") ELSE JStr("")
               [] shape = 3 -> inner("kwargs")
    IN IF blob.json /\ o.t = "obj" /\ v.t = "str" THEN v.s ELSE ""

\* The first of the three shapes that yields a non-empty text, 0 when none does.
FirstShapeWithText(blob) ==
    IF blob.json /\ blob.v.t = "obj" /\ \E k \in 1..3 : TextAt(blob, k) # ""
    THEN CHOOSE k \in 1..3 : TextAt(blob, k) # "" /\ \A j \in 1..(k - 1) : TextAt(blob, j) = ""
    ELSE 0

TypeOf(blob) ==
    IF HasKey(blob.v, "type") /\ KeyVal(blob.v, "type").t = "str"
    THEN KeyVal(blob.v, "type").s ELSE "unknown"

RECURSIVE ByFirstShapeWithText(_)
ByFirstShapeWithText(rows) ==
    IF rows = <<>> THEN <<>>
    ELSE LET blob == Head(rows).message
             k == FirstShapeWithText(blob)
         IN (IF k = 0 THEN <<>> ELSE <<Entry(TypeOf(blob), TextAt(blob, k))>>)
            \o ByFirstShapeWithText(Tail(rows))

\* C11: each stored message is decoded by the first of the shapes
\* data.content, content, kwargs.content that yields a non-empty text: a
\* message whose earlier shape is present but empty and whose later shape
\* holds a text is shown with that text.
C11_FirstShapeWithText ==
    ui.read => ui.history = ByFirstShapeWithText(select_session(message_store, ui.session_id))

\* The messages of known type and text, in each of the three encodings.
Encodings(type, text) == {Shape1(type, text), Shape2(type, text), Shape3(type, text)}
StoredTypes == {"human", "ai"}
StoredTexts == {"hi", "hello"}

RECURSIVE WhicheverShape(_)
WhicheverShape(rows) ==
    IF rows = <<>> THEN <<>>
    ELSE LET blob == Head(rows).message
             known == {m \in StoredTypes \X StoredTexts : blob \in Encodings(m[1], m[2])}
         IN (IF known = {} THEN <<>>
             ELSE LET m == CHOOSE m \in known : TRUE IN <<Entry(m[1], m[2])>>)
            \o WhicheverShape(Tail(rows))

OneShapeOrNone(rows) ==
    \A i \in 1..Len(rows) :
        \/ rows[i].message \in Unrecognized
        \/ \E m \in StoredTypes \X StoredTexts : rows[i].message \in Encodings(m[1], m[2])

\* C12: a message with text t is shown with text t whichever of the three
\* shapes encodes it, and an entry that is invalid JSON, not an object or of
\* none of the three shapes is left out while the entries before and after
\* it are shown, in order.
C12_SameTextWhicheverShape ==
    LET rows == select_session(message_store, ui.session_id)
    IN (ui.read /\ OneShapeOrNone(rows)) => ui.history = WhicheverShape(rows)

\* An undecodable row between two messages in different encodings, both shown.
C12_Witness ==
    LET rows == select_session(message_store, ui.session_id)
    IN /\ ui.read /\ Len(rows) = 3
       /\ rows[1].message = Shape3("ai", "hi")
       /\ rows[2].message = Unparseable
       /\ rows[3].message = Shape1("human", "hi")
       /\ ui.history = <<Entry("ai", "hi"), Entry("human", "hi")>>

\* The jobs of sender s that have completed, and whether any other is under way.
Completed(s) == {r \in Requests : job[r].pc = "done" /\ sender_id(r) = s}
UnderWay(s) ==
    \E r \in Requests : job[r].pc \notin {"none", "done"} /\ sender_id(r) = s

\* The exchanges of the completed jobs in the set kept, in the order of
\* completion (each job ends with its one delivery call).
RECURSIVE ExchangesOf(_, _)
ExchangesOf(calls, kept) ==
    IF calls = <<>> THEN <<>>
    ELSE LET r == Head(calls).job
         IN (IF r \in kept
             THEN <<HumanMessage(user_message(r)), AIMessage(job[r].out[1])>>
             ELSE <<>>)
            \o ExchangesOf(Tail(calls), kept)

EntriesOf(msgs) == [i \in 1..Len(msgs) |-> Entry(msgs[i].type, msgs[i].content)]

EndedWithAnswer(r) == job[r].how = "answer"

\* C13 as stated: once two jobs of one sender have completed, the session's
\* log holds the input turn and the output turn of each message once, the
\* exchanges in the order of completion, and a read shows every entry.
C13_EveryExchangeLoggedAndShown ==
    \A s \in Senders :
        (Cardinality(Completed(s)) >= 2 /\ ~UnderWay(s)) =>
            /\ sql_messages(message_store, s) = ExchangesOf(deliveries, Completed(s))
            /\ (ui.read /\ ui.session_id = s) =>
                    ui.history = EntriesOf(sql_messages(message_store, s))

\* C13, amended: once two jobs of one sender have completed, the session's
\* log holds the input turn and the output turn of each message whose job
\* ended with an answer, once, the exchanges in the order of completion, and
\* a read shows every entry that has a non-empty text, none twice.
C13_AnsweredExchangesLoggedAndShown ==
    \A s \in Senders :
        (Cardinality(Completed(s)) >= 2 /\ ~UnderWay(s)) =>
            /\ sql_messages(message_store, s) = ExchangesOf(deliveries, {r \in Completed(s) : EndedWithAnswer(r)})
            /\ (ui.read /\ ui.session_id = s) =>
                    ui.history = Shown(sql_messages(message_store, s))

\* Two messages of one sender, both answered, the second job completing
\* first, and the four entries read back.
C13_Witness ==
    \E s \in Senders :
        /\ Completed(s) = {1, 2}
        /\ EndedWithAnswer(1) /\ EndedWithAnswer(2)
        /\ deliveries[1].job = 2
        /\ job[1].out # job[2].out
        /\ ui.read /\ ui.session_id = s /\ Len(ui.history) = 4

IsPrefix(a, b) == Len(a) <= Len(b) /\ \A i \in 1..Len(a) : a[i] = b[i]

C15_EverySessionListed ==
    (ui.listed /\ db_file = "ready") =>
        ui.contacts = {row.session_id : row \in message_store}

\* C16: while memory.db is missing, or exists without the message table, a
\* contact listing and a history read return an empty result, and leave
\* memory.db as it is: neither the file nor the table is created.
C16_SafeBeforeInitialization ==
    [][db_file # "ready" =>
          /\ db_file' = db_file
          /\ ui'.read => ui'.history = <<>>
          /\ ui'.listed => ui'.contacts = {}]_vars

\* A history read or a contact listing was answered, empty, with memory.db
\* missing.
C16_Witness ==
    /\ db_file = "no_file"
    /\ message_store = {}
    /\ ui.read \/ ui.listed
    /\ ui.history = <<>> /\ ui.contacts = {}

Called == tool.name # ""

\* C17: whatever the state of token.json and whatever the provider answers, a
\* call of add_calendar_event, send_gmail or add_expense_row returns a text;
\* it never raises.
C17_ToolsReturnText ==
    Called => tool.result.ok

\* The call went as far as loading a credential from token.json.
LoadedCredential ==
    /\ Called /\ token_json.exists /\ token_json.loads
    /\ ~(tool.name = "add_expense_row" /\ GOOGLE_SHEET_ID = None)

\* C18: a tool call that finds an expired credential attempts one refresh,
\* not none and not several; when the refresh fails there is no provider
\* call and the tool returns the text "Error: Google Token is invalid."; when it
\* succeeds the provider is called with the refreshed credential.
C18_OneRefreshWhenExpired ==
    (LoadedCredential /\ token_json.expired) =>
        /\ tool.refreshes = 1
        /\ \/ tool.calls = <<>> /\ tool.result = Ok(TOKEN_INVALID)
           \/ tool.calls = <<refresh(token_json)>>

\* C19: get_creds returns None or a valid credential, so no provider call is
\* made with a credential that is not valid.
C19_ProviderCallHoldsValidCredential ==
    \A i \in 1..Len(tool.calls) : valid(tool.calls[i])

\* Job r has read its session's history and has not yet stored its exchange.
BetweenReadAndAppend(r) == job[r].pc \in {"model", "tool"}

\* Job r is scheduled, its request acknowledged, and it has not started.
Waiting(r) == background_ready(r) /\ Len(req[r].tasks) > 0 /\ job[r].pc = "none"

Invoked(r) == job[r].pc = "invoke"

Admins == {u \in users : u.role = "admin"}

\* C22: after startup has run init_db, the users table holds at least one
\* account with role admin in every reachable state, whatever login, logout,
\* add-user and delete-user requests the sessions send.
C22_AlwaysAnAdmin == Admins # {}

====
